---- MODULE Spec2Model ----
(***************************************************************************)
(* Model of the highlighting-style registry of histyle/histyles.go:        *)
(* the three collections StdStyles, CustomStyles and AvailStyles, the      *)
(* name list StyleNames, the flag StylesChanged, the default name          *)
(* StyleDefault, and the files the collections are opened from and saved   *)
(* to.  A Styles value is a Go map[string]*Style: a possibly nil map from  *)
(* names to pointers; pointers are references into a heap of Style values. *)
(***************************************************************************)
EXTENDS Integers, Sequences, FiniteSets, TLC

VARIABLES StdStyles, CustomStyles, AvailStyles, StyleNames, StyleDefault,
          StylesChanged, heap, files, panicked, last, steps, conc

vars == <<StdStyles, CustomStyles, AvailStyles, StyleNames, StyleDefault,
          StylesChanged, heap, files, panicked, last, steps, conc>>

-----------------------------------------------------------------------------
(* Names, style values, pointers *)

\* the style names of the model, in Go's string order
SortedNames == <<"custom-sample", "emacs">>

StyleNameSet == {SortedNames[i] : i \in 1..Len(SortedNames)}

\* the names looked up and configured as the default: one is in no collection
LookupNames == StyleNameSet \cup {"mystyle"}

NameIdx(n) == CHOOSE i \in 1..Len(SortedNames) : SortedNames[i] = n

\* Style values 1..MaxStyle are distinct non-empty styles
MaxStyle == 2

\* the number of calls of a run
MaxSteps == 4

\* the zero value of Style, what &Style{} points to
ZeroStyle == 0

StyleVals == 0..MaxStyle

\* the contents a collaborator gives a style it stores in CustomStyles
EditStyles == {MaxStyle}

\* the nil *Style
NilPtr == 0

EmptyMap == [n \in {} |-> NilPtr]

\* a nil Styles map, as StdStyles and AvailStyles are declared
NilStyles == [isnil |-> TRUE, m |-> EmptyMap]

\* make(Styles, n) and Styles{}
MakeStyles == [isnil |-> FALSE, m |-> EmptyMap]

Keys(hs) == DOMAIN hs.m

\* hs[nm] of Go: the zero value (nil pointer) for a missing key
MapIndex(hs, nm) == IF nm \in DOMAIN hs.m THEN hs.m[nm] ELSE NilPtr

\* hs[nm] = p on a non-nil map
MapAssign(hs, nm, p) ==
    [isnil |-> FALSE,
     m |-> [k \in DOMAIN hs.m \cup {nm} |-> IF k = nm THEN p ELSE hs.m[k]]]

Range(f) == {f[k] : k \in DOMAIN f}

\* the smallest address not in use
Fresh(used) ==
    CHOOSE r \in 1..(Cardinality(used) + 1) :
        r \notin used /\ \A q \in 1..(r - 1) : q \in used

RECURSIVE NthFresh(_, _)
NthFresh(used, k) ==
    IF k = 1 THEN Fresh(used)
    ELSE NthFresh(used \cup {Fresh(used)}, k - 1)

\* position of name n among the names of S
Rank(n, S) == Cardinality({k \in S : NameIdx(k) <= NameIdx(n)})

\* one new address for every name of S
AllocFor(S, used) == [n \in S |-> NthFresh(used, Rank(n, S))]

\* heap h extended with the objects vals, stored at the addresses refs
HeapPut(h, refs, vals) ==
    [r \in DOMAIN h \cup Range(refs) |->
        IF r \in Range(refs)
        THEN vals[CHOOSE n \in DOMAIN refs : refs[n] = r]
        ELSE h[r]]

-----------------------------------------------------------------------------
(* The chroma registry and the Style conversions *)

\* styles.Registry of chroma: name -> chroma style
ChromaRegistry == [n \in {"emacs"} |-> 21]

\* Style.FromChroma: the conversion of a chroma style to a Style
StyleFromChroma(cse) == cse - 20

\* the JSON document of a Style and back
EncodeStyle(v) == v + 10

DecodeStyle(d) == d - 10

\* Style.CopyFrom: the copy of the Style p points to (nothing for nil)
StyleCopyFrom(h, p) == IF p = NilPtr THEN ZeroStyle ELSE h[p]

-----------------------------------------------------------------------------
(* Files *)

Paths == {"prefs", "other"}

\* PrefsStylesFileName in the app prefs directory
PrefsPath == "prefs"

JObj(v) == [k |-> "obj", v |-> EncodeStyle(v)]
JNull == [k |-> "null", v |-> 0]
JNum == [k |-> "num", v |-> 0]

FAbsent == [k |-> "absent", m |-> EmptyMap]
FGarbage == [k |-> "garbage", m |-> EmptyMap]
FNull == [k |-> "null", m |-> EmptyMap]
FObject(m) == [k |-> "object", m |-> m]

\* the files a run can start with: missing, not JSON, the JSON null, and
\* JSON objects with style documents, a null and a number among the values
StartFiles ==
    {FAbsent, FGarbage, FNull, FObject(EmptyMap),
     FObject([n \in {"emacs"} |-> JObj(2)]),
     FObject([n \in {"custom-sample", "emacs"} |->
                 IF n = "emacs" THEN JNum ELSE JObj(1)]),
     FObject([n \in {"emacs"} |-> JNull])}


-----------------------------------------------------------------------------
(* The registry as a record, and the functions of histyles.go on it *)

Cur ==
    [Std |-> StdStyles, Custom |-> CustomStyles, Avail |-> AvailStyles,
     Names |-> StyleNames, Changed |-> StylesChanged, heap |-> heap,
     files |-> files, panic |-> FALSE, err |-> "nil"]

\* the receivers the methods of *Styles are called on
Receivers == {"Std", "Custom"}

Get(r, hs) == IF hs = "Std" THEN r.Std ELSE r.Custom

Put(r, hs, val) ==
    IF hs = "Std" THEN [r EXCEPT !.Std = val] ELSE [r EXCEPT !.Custom = val]

\* (hs *Styles) FromChroma(cs)
FromChroma(r, hs, cs) ==
    LET old == Get(r, hs)
        refs == AllocFor(DOMAIN cs, DOMAIN r.heap)
        new == [isnil |-> FALSE,
                m |-> [k \in DOMAIN old.m \cup DOMAIN cs |->
                          IF k \in DOMAIN cs THEN refs[k] ELSE old.m[k]]]
    IN [Put(r, hs, new) EXCEPT
          !.heap = HeapPut(r.heap, refs,
                           [n \in DOMAIN cs |-> StyleFromChroma(cs[n])])]

\* (hs *Styles) CopyFrom(os): the pointers of os are assigned into hs
CopyFrom(hs, os) ==
    [isnil |-> FALSE,
     m |-> [k \in DOMAIN hs.m \cup DOMAIN os.m |->
               IF k \in DOMAIN os.m THEN os.m[k] ELSE hs.m[k]]]

\* the orders a range over a map of the keys S can produce
Perms(S) ==
    {s \in [1..Cardinality(S) -> S] :
        \A i, j \in 1..Cardinality(S) : i # j => s[i] # s[j]}

\* (hs *Styles) Names(): the keys in the order the map is ranged over
Names(hs) == Perms(DOMAIN hs.m)

\* MergeAvailStyles with the two CopyFrom calls in the other order
MergedStylesStdLast(r) == CopyFrom(CopyFrom(MakeStyles, r.Custom), r.Std)

\* AvailStyles as MergeAvailStyles builds it
MergedStyles(r) == CopyFrom(CopyFrom(MakeStyles, r.Std), r.Custom)

\* MergeAvailStyles that takes StyleNames from AvailStyles before it is
\* rebuilt
MergeAvailStylesOldNames(r, nms) ==
    [r EXCEPT !.Avail = MergedStyles(r),
              !.Names = SelectSeq(nms, LAMBDA n : n \in Keys(r.Avail))]

\* MergeAvailStyles(), nms being what AvailStyles.Names() returns
MergeAvailStyles(r, nms) ==
    [r EXCEPT !.Avail = MergedStyles(r), !.Names = nms]

\* json.Unmarshal(b, hs) for b a JSON object: the map is allocated if nil
\* and kept with its entries otherwise; every key of the object is stored
\* with a new value: a nil pointer for null, a new Style for a document,
\* and for a value of another JSON type a new empty Style, with the type
\* error returned once the whole object has been stored
UnmarshalObject(r, hs, doc) ==
    LET old == Get(r, hs)
        alloc == {n \in DOMAIN doc : doc[n].k # "null"}
        refs == AllocFor(alloc, DOMAIN r.heap)
        new == [isnil |-> FALSE,
                m |-> [k \in DOMAIN old.m \cup DOMAIN doc |->
                          IF k \in alloc THEN refs[k]
                          ELSE IF k \in DOMAIN doc THEN NilPtr
                          ELSE old.m[k]]]
        vals == [n \in alloc |->
                    IF doc[n].k = "obj" THEN DecodeStyle(doc[n].v)
                    ELSE ZeroStyle]
    IN [Put(r, hs, new) EXCEPT
          !.heap = HeapPut(r.heap, refs, vals),
          !.err = IF \E n \in DOMAIN doc : doc[n].k = "num"
                  THEN "type" ELSE "nil"]

\* (hs *Styles) OpenJSON(filename): a read error and a syntax error return
\* before anything is stored; the JSON null sets the map to nil
OpenJSON(r, hs, filename) ==
    LET b == r.files[filename]
    IN CASE b.k = "absent" -> [r EXCEPT !.err = "io"]
         [] b.k = "garbage" -> [r EXCEPT !.err = "syntax"]
         [] b.k = "null" -> [Put(r, hs, NilStyles) EXCEPT !.err = "nil"]
         [] OTHER -> UnmarshalObject(r, hs, b.m)

\* a Marshal that leaves the nil entries out of the object
MarshalSkipsNil(r, hs) ==
    LET c == Get(r, hs)
    IN IF c.isnil THEN FNull
       ELSE FObject([n \in {k \in DOMAIN c.m : c.m[k] # NilPtr} |->
                        [k |-> "obj", v |-> EncodeStyle(r.heap[c.m[n]])]])

\* json.MarshalIndent(hs, "", "  ")
Marshal(r, hs) ==
    LET c == Get(r, hs)
    IN IF c.isnil THEN FNull
       ELSE FObject([n \in DOMAIN c.m |->
                        IF c.m[n] = NilPtr THEN JNull
                        ELSE [k |-> "obj", v |-> EncodeStyle(r.heap[c.m[n]])]])

\* what ioutil.WriteFile can leave at the path: the bytes, or the old file
\* when the path cannot be opened for writing
WriteOutcomes(old, b) ==
    {[file |-> b, err |-> "nil"], [file |-> old, err |-> "io"]}

\* SaveJSON with StylesChanged = false added
SaveJSONClears(r, hs, filename, w) ==
    [r EXCEPT !.files = [r.files EXCEPT ![filename] = w.file],
              !.err = w.err, !.Changed = FALSE]

\* (hs *Styles) SaveJSON(filename), w being the outcome of the write
SaveJSON(r, hs, filename, w) ==
    [r EXCEPT !.files = [r.files EXCEPT ![filename] = w.file],
              !.err = w.err]

\* OpenPrefs without StylesChanged = false
OpenPrefsNoReset(r, hs) == OpenJSON(r, hs, PrefsPath)

\* (hs *Styles) OpenPrefs()
OpenPrefs(r, hs) == OpenJSON([r EXCEPT !.Changed = FALSE], hs, PrefsPath)

\* SavePrefs without the call of MergeAvailStyles
SavePrefsNoMerge(r, hs, nms, w) ==
    SaveJSON([r EXCEPT !.Changed = FALSE], hs, PrefsPath, w)

\* SavePrefs that writes first and merges only after a good write
SavePrefsMergeAfterWrite(r, hs, nms, w) ==
    LET r1 == SaveJSON([r EXCEPT !.Changed = FALSE], hs, PrefsPath, w)
    IN IF r1.err # "nil" THEN r1 ELSE MergeAvailStyles(r1, nms)

\* (hs *Styles) SavePrefs()
SavePrefs(r, hs, nms, w) ==
    SaveJSON(MergeAvailStyles([r EXCEPT !.Changed = FALSE], nms),
             hs, PrefsPath, w)

\* Init() up to the call of MergeAvailStyles; the assignment to
\* CustomStyles["custom-sample"] panics when CustomStyles is a nil map
InitLoad(r, dflt) ==
    LET r1 == FromChroma(r, "Std", ChromaRegistry)
        r2 == [OpenPrefs(r1, "Custom") EXCEPT !.err = "nil"]
        cs == Fresh(DOMAIN r2.heap)
        val == StyleCopyFrom(r2.heap, MapIndex(r2.Std, dflt))
    IN IF Cardinality(Keys(r2.Custom)) # 0 THEN r2
       ELSE IF r2.Custom.isnil THEN [r2 EXCEPT !.panic = TRUE]
       ELSE [r2 EXCEPT !.Custom = MapAssign(r2.Custom, "custom-sample", cs),
                       !.heap = HeapPut(r2.heap,
                                        [n \in {"custom-sample"} |-> cs],
                                        [n \in {"custom-sample"} |-> val])]

-----------------------------------------------------------------------------
(* State *)

\* the record of the last call: the function, its receiver and arguments,
\* the error and the pointer it returned, whether AvailStyle ran Init, the
\* value StylesChanged had when it was called, for Init the function called
\* before it, and for a load whether the receiver held no entry before it
NoCall ==
    [op |-> "none", hs |-> "", path |-> "", nm |-> "", err |-> "nil",
     ret |-> NilPtr, lazy |-> FALSE, was |-> FALSE, prev |-> "none",
     empty |-> FALSE]

Call(op, hs, path, nm, err, ret, lazy) ==
    [op |-> op, hs |-> hs, path |-> path, nm |-> nm, err |-> err,
     ret |-> ret, lazy |-> lazy, was |-> StylesChanged,
     prev |-> IF op = "Init" THEN last.op ELSE "none",
     empty |-> op \in {"OpenJSON", "OpenPrefs"} /\ Keys(Get(Cur, hs)) = {}]

\* the addresses that can still be reached
Live(r, ret) ==
    (Range(r.Std.m) \cup Range(r.Custom.m) \cup Range(r.Avail.m) \cup {ret})
        \ {NilPtr}

\* the registry becomes r and the call c is recorded
Set(r, c) ==
    /\ StdStyles' = r.Std
    /\ CustomStyles' = r.Custom
    /\ AvailStyles' = r.Avail
    /\ StyleNames' = r.Names
    /\ StylesChanged' = r.Changed
    /\ heap' = [p \in Live(r, c.ret) |-> r.heap[p]]
    /\ files' = r.files
    /\ panicked' = r.panic
    /\ last' = c
    /\ steps' = steps + 1
    /\ UNCHANGED conc

\* the goroutines of a concurrent run: two that call AvailStyle and one
\* that calls MergeAvailStyles
Lookups == {"l1", "l2"}

Merger == "m"

Procs == Lookups \cup {Merger}

\* where each goroutine is (pc), the name each AvailStyle was called with
\* and the pointer it returned, and how many times Init has been called
ConcStart ==
    [pc |-> [g \in Procs |-> IF g \in Lookups THEN "l47" ELSE "l80"],
     nm |-> [g \in Lookups |-> ""],
     ret |-> [g \in Lookups |-> NilPtr],
     inits |-> 0]

\* a panic ends the program; a run is MaxSteps calls long
Running == ~panicked /\ steps < MaxSteps

\* the package-level declarations, and the files of the run
Init ==
    /\ StdStyles = NilStyles
    /\ CustomStyles = MakeStyles
    /\ AvailStyles = NilStyles
    /\ StyleNames = <<>>
    /\ StyleDefault = "emacs"
    /\ StylesChanged = FALSE
    /\ heap = EmptyMap
    /\ \E b \in StartFiles :
          files = [f \in Paths |-> IF f = PrefsPath THEN b ELSE FAbsent]
    /\ panicked = FALSE
    /\ last = NoCall
    /\ steps = 0
    /\ conc = ConcStart

-----------------------------------------------------------------------------
(* The calls *)

\* AvailStyle without the fallback
LookupStyleNoFallback(r, nm, dflt) == MapIndex(r.Avail, nm)

\* AvailStyles[nm] with the fallback to the default
LookupStyle(r, nm, dflt) ==
    IF nm \in DOMAIN r.Avail.m THEN r.Avail.m[nm]
    ELSE MapIndex(r.Avail, dflt)

\* len(AvailStyles) == 0 in the place of AvailStyles == nil
NeedsInitEmpty(r) == Keys(r.Avail) = {}

\* AvailStyles == nil
NeedsInit(r) == r.Avail.isnil

\* Init()
InitCall ==
    /\ Running
    /\ LET r1 == InitLoad(Cur, StyleDefault)
           c == Call("Init", "", "", "", "nil", NilPtr, FALSE)
       IN IF r1.panic THEN Set(r1, c)
          ELSE \E nms \in Names(MergedStyles(r1)) :
                  Set(MergeAvailStyles(r1, nms), c)
    /\ UNCHANGED StyleDefault

\* AvailStyle(nm)
AvailStyle(nm) ==
    /\ Running
    /\ IF NeedsInit(Cur)
       THEN LET r1 == InitLoad(Cur, StyleDefault)
            IN IF r1.panic
               THEN Set(r1, Call("AvailStyle", "", "", nm, "nil", NilPtr, TRUE))
               ELSE \E nms \in Names(MergedStyles(r1)) :
                       LET r2 == MergeAvailStyles(r1, nms)
                       IN Set(r2, Call("AvailStyle", "", "", nm, "nil",
                                       LookupStyle(r2, nm, StyleDefault), TRUE))
       ELSE Set(Cur, Call("AvailStyle", "", "", nm, "nil",
                          LookupStyle(Cur, nm, StyleDefault), FALSE))
    /\ UNCHANGED StyleDefault

\* MergeAvailStyles()
MergeAvailStylesCall ==
    /\ Running
    /\ \E nms \in Names(MergedStyles(Cur)) :
          Set(MergeAvailStyles(Cur, nms),
              Call("MergeAvailStyles", "", "", "", "nil", NilPtr, FALSE))
    /\ UNCHANGED StyleDefault

\* hs.OpenJSON(filename)
OpenJSONCall(hs, filename) ==
    /\ Running
    /\ LET r1 == OpenJSON(Cur, hs, filename)
       IN Set(r1, Call("OpenJSON", hs, filename, "", r1.err, NilPtr, FALSE))
    /\ UNCHANGED StyleDefault

\* hs.SaveJSON(filename)
SaveJSONCall(hs, filename) ==
    /\ Running
    /\ \E w \in WriteOutcomes(files[filename], Marshal(Cur, hs)) :
          LET r1 == SaveJSON(Cur, hs, filename, w)
          IN Set(r1, Call("SaveJSON", hs, filename, "", r1.err, NilPtr, FALSE))
    /\ UNCHANGED StyleDefault

\* hs.OpenPrefs()
OpenPrefsCall(hs) ==
    /\ Running
    /\ LET r1 == OpenPrefs(Cur, hs)
       IN Set(r1, Call("OpenPrefs", hs, PrefsPath, "", r1.err, NilPtr, FALSE))
    /\ UNCHANGED StyleDefault

\* hs.SavePrefs()
SavePrefsCall(hs) ==
    /\ Running
    /\ \E nms \in Names(MergedStyles(Cur)) :
       \E w \in WriteOutcomes(files[PrefsPath], Marshal(Cur, hs)) :
          LET r1 == SavePrefs(Cur, hs, nms, w)
          IN Set(r1, Call("SavePrefs", hs, PrefsPath, "", r1.err, NilPtr, FALSE))
    /\ UNCHANGED StyleDefault

-----------------------------------------------------------------------------
(* The collaborators: the code that edits CustomStyles, flags the edit and *)
(* configures the default name                                             *)

\* StyleDefault = nm
SetStyleDefault(nm) ==
    /\ Running
    /\ nm # StyleDefault
    /\ StyleDefault' = nm
    /\ steps' = steps + 1
    /\ last' = Call("SetStyleDefault", "", "", nm, "nil", NilPtr, FALSE)
    /\ heap' = [p \in Live(Cur, NilPtr) |-> heap[p]]
    /\ UNCHANGED <<StdStyles, CustomStyles, AvailStyles, StyleNames,
                   StylesChanged, files, panicked, conc>>

\* CustomStyles[nm] = &Style{...} with the contents v
EditCustom(nm, v) ==
    /\ Running
    /\ ~CustomStyles.isnil
    /\ LET p == Fresh(DOMAIN heap)
           r1 == [Cur EXCEPT
                    !.Custom = MapAssign(CustomStyles, nm, p),
                    !.heap = HeapPut(heap, [n \in {nm} |-> p],
                                     [n \in {nm} |-> v])]
       IN Set(r1, Call("EditCustom", "Custom", "", nm, "nil", NilPtr, FALSE))
    /\ UNCHANGED StyleDefault

\* delete(CustomStyles, nm)
DeleteCustom(nm) ==
    /\ Running
    /\ nm \in Keys(CustomStyles)
    /\ LET r1 == [Cur EXCEPT
                    !.Custom = [isnil |-> FALSE,
                                m |-> [k \in Keys(CustomStyles) \ {nm} |->
                                          CustomStyles.m[k]]]]
       IN Set(r1, Call("DeleteCustom", "Custom", "", nm, "nil", NilPtr, FALSE))
    /\ UNCHANGED StyleDefault

\* StylesChanged = true
MarkChanged ==
    /\ Running
    /\ LET r1 == [Cur EXCEPT !.Changed = TRUE]
       IN Set(r1, Call("MarkChanged", "", "", "", "nil", NilPtr, FALSE))
    /\ UNCHANGED StyleDefault

Next ==
    \/ InitCall
    \/ \E nm \in LookupNames : AvailStyle(nm)
    \/ MergeAvailStylesCall
    \/ \E hs \in Receivers, f \in Paths : OpenJSONCall(hs, f)
    \/ \E hs \in Receivers, f \in Paths : SaveJSONCall(hs, f)
    \/ \E hs \in Receivers : OpenPrefsCall(hs)
    \/ \E hs \in Receivers : SavePrefsCall(hs)
    \/ \E nm \in LookupNames : SetStyleDefault(nm)
    \/ \E nm \in StyleNameSet, v \in EditStyles : EditCustom(nm, v)
    \/ \E nm \in StyleNameSet : DeleteCustom(nm)
    \/ MarkChanged

Spec == Init /\ [][Next]_vars

-----------------------------------------------------------------------------
(* Properties *)

\* the Style a pointer of the current heap points to
Deref(p) == heap[p]

\* C1: after MergeAvailStyles the names of AvailStyles are the names of
\* StdStyles and of CustomStyles together, every name of CustomStyles has
\* the entry of CustomStyles, and every other name the entry of StdStyles.
MergePrecedence ==
    last.op = "MergeAvailStyles" =>
        /\ Keys(AvailStyles) = Keys(StdStyles) \cup Keys(CustomStyles)
        /\ \A n \in Keys(CustomStyles) : AvailStyles.m[n] = CustomStyles.m[n]
        /\ \A n \in Keys(StdStyles) \ Keys(CustomStyles) :
              AvailStyles.m[n] = StdStyles.m[n]

\* a merge where a name is in both collections with different styles and
\* another name is in StdStyles only or in CustomStyles only
MergePrecedenceWitness ==
    /\ last.op = "MergeAvailStyles"
    /\ \E n \in Keys(StdStyles) \cap Keys(CustomStyles) :
          StdStyles.m[n] # CustomStyles.m[n]
    /\ Keys(StdStyles) # Keys(CustomStyles)

\* C2 as claimed: after Init, OpenPrefs, SavePrefs, OpenJSON on CustomStyles
\* and MergeAvailStyles, AvailStyles is the merge of StdStyles and
\* CustomStyles and StyleNames holds the names of AvailStyles.
CacheConsistentAfterEveryOp ==
    (/\ ~panicked
     /\ \/ last.op \in {"Init", "OpenPrefs", "SavePrefs", "MergeAvailStyles"}
        \/ last.op = "OpenJSON" /\ last.hs = "Custom")
    => /\ AvailStyles.m = MergedStyles(Cur).m
       /\ Range(StyleNames) = Keys(AvailStyles)

\* C2 as amended: AvailStyles is the merge of StdStyles and CustomStyles
\* after the calls that end with a merge (Init, SavePrefs, MergeAvailStyles),
\* and StyleNames holds the names of AvailStyles in every state.
CacheConsistentAfterMerge ==
    /\ Range(StyleNames) = Keys(AvailStyles)
    /\ (~panicked /\ last.op \in {"Init", "SavePrefs", "MergeAvailStyles"})
       => AvailStyles.m = MergedStyles(Cur).m

\* SavePrefs has returned with both collections holding styles
CacheConsistentWitness ==
    /\ last.op = "SavePrefs"
    /\ Keys(CustomStyles) # {}
    /\ Keys(StdStyles) # {}
    /\ Keys(CustomStyles) # Keys(StdStyles)

\* C3: AvailStyle(nm) returns AvailStyles[nm] for a name of AvailStyles and
\* AvailStyles[StyleDefault] (the nil of a missing key included) for any
\* other name.
LookupResult ==
    (last.op = "AvailStyle" /\ ~panicked) =>
        IF last.nm \in Keys(AvailStyles)
        THEN last.ret = AvailStyles.m[last.nm]
        ELSE last.ret = MapIndex(AvailStyles, StyleDefault)

\* a lookup of a missing name has returned the default style
LookupResultWitness ==
    /\ last.op = "AvailStyle"
    /\ last.nm \notin Keys(AvailStyles)
    /\ StyleDefault \in Keys(AvailStyles)
    /\ last.ret # NilPtr
    /\ last.ret = AvailStyles.m[StyleDefault]

\* C4 as claimed: every call of AvailStyle returns, and never a nil Style.
LookupAlwaysDefined ==
    last.op = "AvailStyle" => (~panicked /\ last.ret # NilPtr)

\* C5: a call of AvailStyle with AvailStyles nil runs Init, after which
\* AvailStyles is not nil; once AvailStyles is not nil it stays so and no
\* call of AvailStyle runs Init; and a call of AvailStyle with AvailStyles
\* not nil leaves the collections, the name list and the flag as they were.
LazyInitOnce ==
    [][/\ (AvailStyles.isnil /\ last'.op = "AvailStyle")
            => (last'.lazy /\ (panicked' \/ ~AvailStyles'.isnil))
       /\ ~AvailStyles.isnil
            => /\ ~AvailStyles'.isnil
               /\ ~(last'.op = "AvailStyle" /\ last'.lazy)
       /\ (~AvailStyles.isnil /\ last'.op = "AvailStyle")
            => UNCHANGED <<StdStyles, CustomStyles, AvailStyles, StyleNames,
                           StylesChanged, files>>]_vars

\* a call of AvailStyle has run Init and returned a style
LazyInitOnceWitness ==
    /\ last.op = "AvailStyle"
    /\ last.lazy
    /\ ~panicked
    /\ ~AvailStyles.isnil
    /\ last.ret # NilPtr

\* s is ascending in Go's string order, without a repetition
IsSorted(s) ==
    \A i, j \in 1..Len(s) : i < j => NameIdx(s[i]) < NameIdx(s[j])

\* C6 as claimed: after MergeAvailStyles, StyleNames is the names of
\* AvailStyles in ascending order, each once.
NameListSorted ==
    last.op = "MergeAvailStyles" =>
        /\ IsSorted(StyleNames)
        /\ Range(StyleNames) = Keys(AvailStyles)
        /\ Len(StyleNames) = Cardinality(Keys(AvailStyles))

\* C7: StylesChanged is false after Init, OpenPrefs and SavePrefs, and true
\* after the collaborator has flagged a change.
DirtyAfterPrefsOps ==
    /\ last.op \in {"Init", "OpenPrefs", "SavePrefs"} => ~StylesChanged
    /\ last.op = "MarkChanged" => StylesChanged

\* Init, OpenPrefs or SavePrefs was called with StylesChanged true
DirtyAfterPrefsOpsWitness ==
    /\ last.op \in {"Init", "OpenPrefs", "SavePrefs"}
    /\ last.was
    /\ ~StylesChanged

ReflectsFile(c, b) ==
    /\ b.k \in {"null", "object"}
    /\ Keys(c) = DOMAIN b.m
    /\ \A n \in Keys(c) :
          IF b.m[n].k = "null" THEN c.m[n] = NilPtr
          ELSE /\ c.m[n] # NilPtr
               /\ b.m[n].k = "obj"
               /\ Deref(c.m[n]) = DecodeStyle(b.m[n].v)

\* C9 as claimed: after a load without an error the receiver holds the
\* names and styles of the file and nothing else.
LoadOverwrites ==
    (last.op \in {"OpenJSON", "OpenPrefs"} /\ last.err = "nil")
    => ReflectsFile(Get(Cur, last.hs), files[last.path])

\* C10 as claimed: a load that returns an error leaves its receiver as it
\* was before the call.
LoadAllOrNothing ==
    [][(last'.op \in {"OpenJSON", "OpenPrefs"} /\ last'.err # "nil")
        => /\ last'.hs = "Std" => StdStyles' = StdStyles
           /\ last'.hs = "Custom" => CustomStyles' = CustomStyles]_vars

\* the Style values of a collection under heap h, -1 standing for nil
Vals(hs, h) ==
    [n \in DOMAIN hs.m |-> IF hs.m[n] = NilPtr THEN -1 ELSE h[hs.m[n]]]

\* the preferences file is missing, is not JSON or is an object without keys
NoPrefsEntries ==
    \/ files[PrefsPath].k \in {"absent", "garbage"}
    \/ files[PrefsPath].k = "object" /\ DOMAIN files[PrefsPath].m = {}

\* C11 as claimed: every call of Init completes with CustomStyles not
\* empty; a call with CustomStyles empty and no entries in the preferences
\* file leaves CustomStyles with the one name "custom-sample", its Style
\* equal in value to StdStyles[StyleDefault], and AvailStyles with the names
\* of StdStyles and "custom-sample".
SeedingOnEmptyPrefs ==
    [][last'.op = "Init" =>
        /\ ~panicked'
        /\ Keys(CustomStyles') # {}
        /\ (Keys(CustomStyles) = {} /\ NoPrefsEntries) =>
              /\ Keys(CustomStyles') = {"custom-sample"}
              /\ CustomStyles'.m["custom-sample"] # NilPtr
              /\ MapIndex(StdStyles', StyleDefault) # NilPtr =>
                    heap'[CustomStyles'.m["custom-sample"]]
                        = heap'[StdStyles'.m[StyleDefault]]
              /\ Keys(AvailStyles') = Keys(StdStyles') \cup {"custom-sample"}
      ]_vars

\* the preferences file is a JSON object of style documents, at least one
PrefsHoldStyles ==
    /\ files[PrefsPath].k = "object"
    /\ DOMAIN files[PrefsPath].m # {}
    /\ \A n \in DOMAIN files[PrefsPath].m : files[PrefsPath].m[n].k = "obj"

\* C12 as claimed: after Init with styles in the preferences file,
\* CustomStyles holds exactly the names and styles of the file, and
\* AvailStyles has the entry of CustomStyles for every name of the file.
NoSeedingWhenPrefsHoldStyles ==
    (last.op = "Init" /\ PrefsHoldStyles) =>
        /\ ~panicked
        /\ ReflectsFile(CustomStyles, files[PrefsPath])
        /\ \A n \in DOMAIN files[PrefsPath].m :
              /\ n \in Keys(AvailStyles)
              /\ AvailStyles.m[n] = CustomStyles.m[n]

\* C13 as claimed: OpenPrefs and OpenJSON return the error of a load that
\* failed; Init returns none and always completes, leaving AvailStyles
\* with every name of StdStyles.
ErrorPropagationSplit ==
    /\ (last.op \in {"OpenPrefs", "OpenJSON"}
          /\ files[last.path].k \in {"absent", "garbage"})
       => last.err # "nil"
    /\ last.op = "Init" =>
          /\ ~panicked
          /\ last.err = "nil"
          /\ ~AvailStyles.isnil
          /\ Keys(StdStyles) \subseteq Keys(AvailStyles)

\* the Style objects of a collection
Objects(hs) == Range(hs.m) \ {NilPtr}

\* C14 as claimed: no Style object is in two of the three collections.
CollectionIndependence ==
    /\ Objects(StdStyles) \cap Objects(CustomStyles) = {}
    /\ Objects(StdStyles) \cap Objects(AvailStyles) = {}
    /\ Objects(CustomStyles) \cap Objects(AvailStyles) = {}

\* the receiver of the last call, after it
LoadedInto == Get([Std |-> StdStyles', Custom |-> CustomStyles'], last'.hs)

CollaboratorOps ==
    {"OpenJSON", "SaveJSON", "OpenPrefs", "SavePrefs", "AvailStyle",
     "MergeAvailStyles", "MarkChanged"}

\* C16 as claimed: from a state that a completed Init has just left, no
\* collaborator operation, also when called on the collection that ViewStd
\* shows, changes the contents of StdStyles, and the preferences file is
\* only ever written with the contents of CustomStyles.
StandardReadOnly ==
    [][(last.op = "Init" /\ ~panicked /\ last'.op \in CollaboratorOps) =>
          /\ StdStyles'.isnil = StdStyles.isnil
          /\ Vals(StdStyles', heap') = Vals(StdStyles, heap)
          /\ files'[PrefsPath] # files[PrefsPath] =>
                files'[PrefsPath] = Marshal(Cur, "Custom")
      ]_vars

\* C17: SavePrefs on either collection leaves StylesChanged false and
\* AvailStyles equal to the merge of StdStyles and CustomStyles as they are
\* now, edits since the previous merge included, whether or not the write
\* failed; it changes neither StdStyles nor CustomStyles; the preferences
\* file holds the receiver's encoding after a good write, and no other
\* file is written.
SavePrefsStepOrder ==
    [][last'.op = "SavePrefs" =>
          /\ ~StylesChanged'
          /\ AvailStyles' = MergedStyles(Cur)
          /\ Range(StyleNames') = Keys(AvailStyles')
          /\ CustomStyles' = CustomStyles
          /\ StdStyles' = StdStyles
          /\ last'.err = "nil" =>
                files'[PrefsPath] = Marshal(Cur, last'.hs)
          /\ \A f \in Paths \ {PrefsPath} : files'[f] = files[f]
      ]_vars

\* SavePrefs of CustomStyles has failed to write, StylesChanged was set
\* before the call, and AvailStyles holds an edited entry of CustomStyles
\* that the preferences file does not.
SavePrefsStepOrderWitness ==
    /\ last.op = "SavePrefs"
    /\ last.hs = "Custom"
    /\ last.err # "nil"
    /\ last.was
    /\ ~StylesChanged
    /\ \E n \in Keys(CustomStyles) :
          /\ n \notin DOMAIN files[PrefsPath].m
          /\ CustomStyles.m[n] # NilPtr
          /\ heap[CustomStyles.m[n]] \in EditStyles
          /\ AvailStyles.m[n] = CustomStyles.m[n]

\* C18: an Init that follows a completed Init with nothing in between, so
\* with the same preferences file, registry and CustomStyles, completes and
\* leaves StdStyles, CustomStyles and AvailStyles with the same names and
\* styles, StyleNames with the same set of names, and StylesChanged as the
\* first Init left it.
InitIdempotent ==
    [][(last.op = "Init" /\ ~panicked /\ last'.op = "Init") =>
          /\ ~panicked'
          /\ StdStyles'.isnil = StdStyles.isnil
          /\ CustomStyles'.isnil = CustomStyles.isnil
          /\ AvailStyles'.isnil = AvailStyles.isnil
          /\ Vals(StdStyles', heap') = Vals(StdStyles, heap)
          /\ Vals(CustomStyles', heap') = Vals(CustomStyles, heap)
          /\ Vals(AvailStyles', heap') = Vals(AvailStyles, heap)
          /\ Range(StyleNames') = Range(StyleNames)
          /\ StylesChanged' = StylesChanged
          /\ files' = files
      ]_vars

\* Init has run twice in a row, the second time over the collections that
\* the first had filled from a preferences file and the registry.
InitIdempotentWitness ==
    /\ last.op = "Init"
    /\ last.prev = "Init"
    /\ ~panicked
    /\ Keys(StdStyles) # {}
    /\ Keys(CustomStyles) # {}
    /\ Keys(AvailStyles) = Keys(StdStyles) \cup Keys(CustomStyles)
    /\ Range(StyleNames) = Keys(AvailStyles)

-----------------------------------------------------------------------------
(* Concurrent calls: AvailStyle and MergeAvailStyles run by goroutines     *)
(* with no synchronisation, one statement at a time                        *)

\* the registry becomes r; no call is recorded
SetConc(r) ==
    /\ StdStyles' = r.Std
    /\ CustomStyles' = r.Custom
    /\ AvailStyles' = r.Avail
    /\ StyleNames' = r.Names
    /\ StylesChanged' = r.Changed
    /\ heap' = r.heap
    /\ files' = r.files
    /\ panicked' = r.panic
    /\ UNCHANGED <<StyleDefault, last, steps>>

\* the statement g goes to after MergeAvailStyles returns
AfterMerge(g) == IF g \in Lookups THEN "l50" ELSE "done"

\* AvailStyle, line 48, with the check of line 47 made again under a lock
LazyInitRecheck(r, dflt) == IF NeedsInit(r) THEN InitLoad(r, dflt) ELSE r

\* AvailStyle, line 48: Init() up to its call of MergeAvailStyles, called
\* because line 47 found AvailStyles nil, whatever AvailStyles is by now
LazyInit(r, dflt) == InitLoad(r, dflt)

\* MergeAvailStyles, line 80: AvailStyles = make(Styles, ...)
MergeMake(r) == [r EXCEPT !.Avail = MakeStyles]

\* MergeAvailStyles, lines 81 and 82: AvailStyles.CopyFrom(os)
MergeCopy(r, os) == [r EXCEPT !.Avail = CopyFrom(r.Avail, Get(r, os))]

\* MergeAvailStyles, line 83: StyleNames = AvailStyles.Names()
MergeNames(r, nms) == [r EXCEPT !.Names = nms]

\* g calls AvailStyle(nm) and evaluates AvailStyles == nil
LookupCheck(g, nm) ==
    /\ ~panicked
    /\ conc.pc[g] = "l47"
    /\ conc' = [conc EXCEPT !.nm[g] = nm,
                            !.pc[g] = IF NeedsInit(Cur) THEN "l48" ELSE "l50"]
    /\ SetConc(Cur)

\* g calls Init(), which runs up to its call of MergeAvailStyles
LookupInit(g) ==
    /\ ~panicked
    /\ conc.pc[g] = "l48"
    /\ conc' = [conc EXCEPT !.pc[g] = "l80", !.inits = @ + 1]
    /\ SetConc(LazyInit(Cur, StyleDefault))

\* g makes the new AvailStyles
MergeStep80(g) ==
    /\ ~panicked
    /\ conc.pc[g] = "l80"
    /\ conc' = [conc EXCEPT !.pc[g] = "l81"]
    /\ SetConc(MergeMake(Cur))

\* g copies StdStyles into AvailStyles
MergeStep81(g) ==
    /\ ~panicked
    /\ conc.pc[g] = "l81"
    /\ conc' = [conc EXCEPT !.pc[g] = "l82"]
    /\ SetConc(MergeCopy(Cur, "Std"))

\* g copies CustomStyles into AvailStyles
MergeStep82(g) ==
    /\ ~panicked
    /\ conc.pc[g] = "l82"
    /\ conc' = [conc EXCEPT !.pc[g] = "l83"]
    /\ SetConc(MergeCopy(Cur, "Custom"))

\* g sets StyleNames and returns from MergeAvailStyles
MergeStep83(g) ==
    /\ ~panicked
    /\ conc.pc[g] = "l83"
    /\ conc' = [conc EXCEPT !.pc[g] = AfterMerge(g)]
    /\ \E nms \in Names(AvailStyles) : SetConc(MergeNames(Cur, nms))

\* g reads AvailStyles[nm], falls back to the default, and returns
LookupRead(g) ==
    /\ ~panicked
    /\ conc.pc[g] = "l50"
    /\ conc' = [conc EXCEPT
                  !.ret[g] = LookupStyle(Cur, conc.nm[g], StyleDefault),
                  !.pc[g] = "done"]
    /\ SetConc(Cur)

\* the statements that write a map, and the statements that read the map
\* a writer at pc writes
MapWriters == {"l48", "l81", "l82"}

MapReaders(pc) ==
    IF pc = "l48" THEN {"l48", "l81", "l82"} ELSE {"l81", "l82", "l83", "l50"}

\* two goroutines are at statements of which one writes a map the other
\* reads or writes: a data race, which the Go runtime may end with a fatal
\* error (concurrent map read and map write, concurrent map writes)
Racing ==
    \E g1, g2 \in Procs :
        /\ g1 # g2
        /\ conc.pc[g1] \in MapWriters
        /\ conc.pc[g2] \in MapReaders(conc.pc[g1])

RaceThrow ==
    /\ ~panicked
    /\ Racing
    /\ panicked' = TRUE
    /\ UNCHANGED <<StdStyles, CustomStyles, AvailStyles, StyleNames,
                   StyleDefault, StylesChanged, heap, files, last, steps,
                   conc>>

NextConc ==
    \/ \E g \in Lookups, nm \in LookupNames : LookupCheck(g, nm)
    \/ \E g \in Lookups : LookupInit(g)
    \/ \E g \in Procs : MergeStep80(g)
    \/ \E g \in Procs : MergeStep81(g)
    \/ \E g \in Procs : MergeStep82(g)
    \/ \E g \in Procs : MergeStep83(g)
    \/ \E g \in Lookups : LookupRead(g)
    \/ RaceThrow

SpecConc == Init /\ [][NextConc]_vars

\* the names that StdStyles or CustomStyles holds
Present == Keys(StdStyles) \cup Keys(CustomStyles)

\* C19: a goroutine that found AvailStyles nil at line 47 runs Init at line
\* 48 whatever AvailStyles has become since, so that two calls of
\* AvailStyle can each run Init; and the lookup of line 50 reads whatever
\* AvailStyles holds at that moment, also between the statements of a
\* MergeAvailStyles run by another goroutine, so that it can miss a name
\* that StdStyles or CustomStyles holds.
MissingAtomicity ==
    [][\A g \in Lookups :
          /\ (conc.pc[g] = "l48" /\ conc'.pc[g] = "l80") =>
                LET r1 == InitLoad(Cur, StyleDefault)
                IN /\ StdStyles' = r1.Std
                   /\ CustomStyles' = r1.Custom
                   /\ panicked' = r1.panic
                   /\ conc'.inits = conc.inits + 1
          /\ (conc.pc[g] = "l50" /\ conc'.pc[g] = "done") =>
                conc'.ret[g] =
                    IF conc.nm[g] \in Keys(AvailStyles)
                    THEN AvailStyles.m[conc.nm[g]]
                    ELSE MapIndex(AvailStyles, StyleDefault)
      ]_vars

\* both calls of AvailStyle have run Init, and one of them has returned nil
\* for a name that StdStyles or CustomStyles holds, the default name being
\* held too, because it read AvailStyles right after another goroutine's
\* MergeAvailStyles had replaced it with an empty map.
MissingAtomicityWitness ==
    /\ ~panicked
    /\ conc.inits = 2
    /\ \E g \in Lookups :
          /\ conc.pc[g] = "done"
          /\ conc.ret[g] = NilPtr
          /\ conc.nm[g] \in Present
          /\ StyleDefault \in Present
          /\ MapIndex(StdStyles, conc.nm[g]) # NilPtr
          /\ MapIndex(StdStyles, StyleDefault) # NilPtr
          /\ Keys(AvailStyles) = {}
          /\ \E h \in Procs \ {g} : conc.pc[h] = "l81"
====
